---- MODULE Spec2Model ----
(***************************************************************************)
(* Frame pacer and presenter of pixelcanvas.go (type Canvasp).             *)
(*                                                                         *)
(* The program runs under GOOS=js (syscall/js): one thread of control,     *)
(* goroutines are scheduled cooperatively, and a refresh callback          *)
(* (js.FuncOf) runs to completion before any other Go code runs.  A        *)
(* callback invocation is therefore one step.                              *)
(*                                                                         *)
(* Timestamps and frame rates are integers (milliseconds, frames per       *)
(* second); the float64 quotient 1000/maxFPS is kept as an exact rational  *)
(* <<num, den>>, with den = 0 for the IEEE-754 infinities that a division  *)
(* by zero produces in Go.  For integer inputs of this size the float64    *)
(* comparison of line 123 and the exact comparison agree.                  *)
(***************************************************************************)
EXTENDS Integers, Sequences, FiniteSets

\* ------------------------------------------------------------------ bounds
MaxCalls == 2       \* calls of Start, SetFPS, Stop and Set, together

\* Timestamps of the display refreshes (milliseconds); a run sees an
\* increasing selection of them.
Times == {0, 8, 17, 33}

\* Values of maxFPS given to Start and SetFPS.
FPSValues == {0, 60, 125}

\* window.innerWidth and innerHeight, the size NewCanvasp(true) creates the
\* canvas with, and the sizes given to Set.
WindowSize == <<2, 1>>
Dims == {<<2, 1>>, <<1, 3>>}

\* Values of maxFPS in the runs that set the surface up anew.
SurfaceFPS == {60, 125}

\* The render step given to Start: none (nil), or a function whose result
\* is chosen by the caller at every invocation.
NilRF == "nil"
FuncRF == "func"
RenderFuncs == {NilRF, FuncRF}

\* The zero js.Value (undefined): c.reqID before any callback stored one.
Undefined == 0

VARIABLES
    timeStep,   \* c.timeStep: min delay between frames, a rational <<num, den>>
    maxFPS,     \* the argument of the latest SetFPS (history; 0 before any)
    reqID,      \* c.reqID: the request id stored by the latest callback
    gor,        \* the goroutines started by initFrameUpdate, one per Start
    pending,    \* the host's refresh registrations: [id, g]
    nextID,     \* the next request id requestAnimationFrame returns
    now,        \* timestamp of the latest display refresh (-1: none yet)
    stops,      \* the calls of Stop: where each stands and what it cancelled
    surf,       \* the surface: width, height, shadow frame, transfer buffer
    nCalls,     \* number of Start, SetFPS, Stop and Set calls made (bounds the run)
    exited,     \* the Go program has exited on an unrecovered panic
    ev          \* history: the latest operation and what it was seen to do

vars == <<timeStep, maxFPS, reqID, gor, pending, nextID, now, stops, surf, nCalls,
          exited, ev>>

\* ------------------------------------------------------- float64 quotient
RECURSIVE GCD(_, _)
GCD(a, b) == IF b = 0 THEN a ELSE GCD(b, a % b)

Abs(x) == IF x < 0 THEN -x ELSE x

Sign(x) == IF x < 0 THEN -1 ELSE IF x > 0 THEN 1 ELSE 0

\* a / b as Go computes it on float64 variables: a division by zero does
\* not panic, it yields +Inf, -Inf (<<1, 0>>, <<-1, 0>>) or NaN (<<0, 0>>).
FloatDiv(a, b) ==
    IF b = 0 THEN <<Sign(a), 0>>
    ELSE LET g == GCD(Abs(a), Abs(b))
         IN  <<(Sign(b) * a) \div g, Abs(b) \div g>>

\* d >= q for an integer d and a quotient q; false against +Inf and NaN.
FloatGeq(d, q) ==
    IF q[2] = 0 THEN q[1] < 0 ELSE d * q[2] >= q[1]

\* Faulty variant: the quotient the comment of line 29 describes, maxFPS/1000.
TimeStepInverted(fps) == FloatDiv(fps, 1000)

\* SetFPS, line 100: c.timeStep = 1000 / maxFPS
TimeStepFor(fps) == FloatDiv(1000, fps)

\* ------------------------------------------------------ the callback body
\* Faulty variant: the gate compares against the interval truncated to whole ms.
GateTruncated(timestamp, lastTimestamp, step) ==
    IF step[2] = 0 THEN step[1] < 0
    ELSE timestamp - lastTimestamp >= step[1] \div step[2]

\* line 123: timestamp-lastTimestamp >= c.timeStep
GatePasses(timestamp, lastTimestamp, step) ==
    FloatGeq(timestamp - lastTimestamp, step)

\* lines 125-131, inside the gate: is imgCopy called?
CopiesFrame(rf, changed) == IF rf # NilRF THEN changed ELSE TRUE

\* Faulty variant: lastTimestamp advances only when a frame was copied.
LastTimestampOnCopy(pass, copied, timestamp, lastTimestamp) ==
    IF pass /\ copied THEN timestamp ELSE lastTimestamp

\* Faulty variant: lastTimestamp is never stored.
LastTimestampKept(pass, copied, timestamp, lastTimestamp) == lastTimestamp

\* line 133, inside the gate: lastTimestamp = timestamp
NextLastTimestamp(pass, copied, timestamp, lastTimestamp) ==
    IF pass THEN timestamp ELSE lastTimestamp

\* Faulty variant: the frame is copied out before the render step draws it.
CopyBeforeRender(rendered, copied) ==
    (IF copied THEN <<"copy.call", "copy.return">> ELSE <<>>)
        \o (IF rendered THEN <<"render.call", "render.return">> ELSE <<>>)

\* lines 125-131: the calls the callback makes and their returns, in order:
\* rf(c.image) is an operand of the if of line 126, so it has returned when
\* c.imgCopy() is called.
HandlerCalls(rendered, copied) ==
    (IF rendered THEN <<"render.call", "render.return">> ELSE <<>>)
        \o (IF copied THEN <<"copy.call", "copy.return">> ELSE <<>>)

\* line 136 is outside the if of line 123: the callback re-arms whether or
\* not the gate passed.
Rearms(pass) == TRUE

\* ------------------------------------------------------------------ host
\* requestAnimationFrame(renderFrame): one more registration, a fresh id.
RequestAnimationFrame(pend, id, g) == pend \cup {[id |-> id, g |-> g]}

\* cancelAnimationFrame(id): drops the registration with that id, if any.
CancelAnimationFrame(pend, id) == {p \in pend : p.id # id}

\* --------------------------------------------------------------- surface
\* len(c.image.Pixels()) of a pixelgl canvas of w by h pixels: RGBA bytes.
FrameBytes(w, h) == w * h * 4

\* The zero Canvasp: no canvas, no shadow frame, no transfer buffer.  allocs
\* counts the Uint8Array allocations; lastSet is history: the latest
\* arguments of Set.
ZeroSurface ==
    [width |-> 0, height |-> 0, image |-> 0,
     copybuff |-> [id |-> 0, len |-> 0], allocs |-> 0, lastSet |-> <<0, 0>>]

\* Faulty variant: the transfer buffer is "defined once and re-used" across
\* calls of Set.
SetSurfaceReusesBuffer(s, w, h) ==
    [width |-> w, height |-> h, image |-> FrameBytes(w, h),
     copybuff |-> IF s.allocs > 0 THEN s.copybuff
                  ELSE [id |-> 1, len |-> FrameBytes(w, h)],
     allocs |-> IF s.allocs > 0 THEN s.allocs ELSE 1,
     lastSet |-> <<w, h>>]

\* Faulty variant: width and height are stored the wrong way round.
SetSurfaceSwapsDims(s, w, h) ==
    [width |-> h, height |-> w, image |-> FrameBytes(w, h),
     copybuff |-> [id |-> s.allocs + 1, len |-> FrameBytes(w, h)],
     allocs |-> s.allocs + 1, lastSet |-> <<w, h>>]

\* imgCopy, line 147, on a Canvasp no Set has run on: c.image is nil and
\* c.copybuff the zero js.Value, so c.image.Pixels() panics (nil pointer)
\* before a byte is copied.
ImgCopyPanics(s) == s.allocs = 0

\* Set, lines 69-80: stores width and height, makes the shadow frame
\* (line 77) and a new transfer buffer of the frame's byte length (line 78).
SetSurface(s, w, h) ==
    [width |-> w, height |-> h, image |-> FrameBytes(w, h),
     copybuff |-> [id |-> s.allocs + 1, len |-> FrameBytes(w, h)],
     allocs |-> s.allocs + 1, lastSet |-> <<w, h>>]

\* -------------------------------------------------------------- scenario
\* History of one run of interest: a render step that always reports a
\* change, maxFPS = 60 at every callback, callbacks at 0, 8, 17, 33.  n is
\* the number of callbacks seen while the run followed it (-1 once it left
\* it) and copies the timestamps at which a frame was copied.
Scenario == [maxFPS |-> 60, times |-> <<0, 8, 17, 33>>]

OffScenario == [n |-> -1, copies |-> {}]

ScenarioStart(rf) ==
    IF rf = FuncRF THEN [n |-> 0, copies |-> {}] ELSE OffScenario

ScenarioStep(sc, t, fps, rendered, changed, copied) ==
    IF /\ sc.n >= 0
       /\ sc.n < Len(Scenario.times)
       /\ t = Scenario.times[sc.n + 1]
       /\ fps = Scenario.maxFPS
       /\ rendered => changed
    THEN [n |-> sc.n + 1, copies |-> IF copied THEN sc.copies \cup {t} ELSE sc.copies]
    ELSE OffScenario

\* ------------------------------------------------------------------ state
\* NewCanvasp(create), lines 38-52: the zero Canvasp; if create (line 47),
\* Create (lines 56-66) sets the surface up with the window's size,
\* otherwise the surface stays the zero one until the owner calls Set.
\* c.done is never made, so it is the nil channel in every state: the send
\* of line 93 and the receive of line 141 block forever (a Stop stays at
\* "send", a goroutine at "recv"), and no step of the program leaves either.
Init ==
    /\ timeStep = <<0, 1>>
    /\ maxFPS = 0
    /\ reqID = Undefined
    /\ gor = <<>>
    /\ pending = {}
    /\ nextID = 1
    /\ now = -1
    /\ stops = <<>>
    /\ \E create \in BOOLEAN :
           surf = IF create
                  THEN SetSurface(ZeroSurface, WindowSize[1], WindowSize[2])
                  ELSE ZeroSurface
    /\ nCalls = 0
    /\ exited = FALSE
    /\ ev = [op |-> "none"]

\* Create and Set, lines 56-80, called again by the owner: the surface is
\* set up anew with the given size.  Nothing of the pacer is touched.
Set(w, h) ==
    /\ ~exited
    /\ nCalls < MaxCalls
    /\ nCalls' = nCalls + 1
    /\ surf' = SetSurface(surf, w, h)
    /\ ev' = [op |-> "Set"]
    /\ UNCHANGED <<timeStep, maxFPS, reqID, gor, pending, nextID, now, stops, exited>>

\* Height and Width, lines 103-111.
Height == surf.height

Width == surf.width

\* Faulty variant: the pacing starts from the time of the latest refresh.
InitialLastTimestampNow == now

\* line 118: var lastTimestamp float64, the zero value.
InitialLastTimestamp == 0

\* Faulty variant: SetFPS also restarts the pacing of the running callbacks.
SetFPSRestartsPacing(fps) ==
    /\ ~exited
    /\ nCalls < MaxCalls
    /\ nCalls' = nCalls + 1
    /\ timeStep' = TimeStepFor(fps)
    /\ maxFPS' = fps
    /\ gor' = [g \in DOMAIN gor |-> [gor[g] EXCEPT !.lastTimestamp = 0]]
    /\ ev' = [op |-> "SetFPS"]
    /\ UNCHANGED <<surf, reqID, pending, nextID, now, stops, exited>>

\* SetFPS, lines 99-101.
SetFPS(fps) ==
    /\ ~exited
    /\ nCalls < MaxCalls
    /\ nCalls' = nCalls + 1
    /\ timeStep' = TimeStepFor(fps)
    /\ maxFPS' = fps
    /\ ev' = [op |-> "SetFPS"]
    /\ UNCHANGED <<surf, reqID, gor, pending, nextID, now, stops, exited>>

\* Start, lines 83-86: SetFPS, then initFrameUpdate starts a goroutine
\* (line 116) and returns; the goroutine has its own lastTimestamp (0).
\* The fields after lastTimestamp are history: what the goroutine's
\* callback was seen to do so far.
Start(fps, rf) ==
    /\ ~exited
    /\ nCalls < MaxCalls
    /\ nCalls' = nCalls + 1
    /\ timeStep' = TimeStepFor(fps)
    /\ maxFPS' = fps
    /\ gor' = Append(gor, [pc |-> "spawned", rf |-> rf, maxFPS |-> fps,
                           lastTimestamp |-> InitialLastTimestamp,
                           lastTick |-> now,
                           prevPass |-> 0,
                           prev |-> [op |-> "none"],
                           scen |-> ScenarioStart(rf)])
    /\ ev' = [op |-> "Start"]
    /\ UNCHANGED <<surf, reqID, pending, nextID, now, stops, exited>>

\* The goroutine, lines 117-141: builds renderFrame, registers it for the
\* next refresh (line 140; the id returned is dropped, c.reqID is not set)
\* and parks on <-c.done.
GoRegister(g) ==
    /\ ~exited
    /\ gor[g].pc = "spawned"
    /\ pending' = RequestAnimationFrame(pending, nextID, g)
    /\ nextID' = nextID + 1
    /\ gor' = [gor EXCEPT ![g].pc = "recv", ![g].lastTick = now]
    /\ ev' = [op |-> "GoRegister"]
    /\ UNCHANGED <<surf, timeStep, maxFPS, reqID, now, stops, nCalls, exited>>

\* No goroutine is runnable.  Under GOOS=js the program has one thread: the
\* host's event loop, and with it every callback, runs only once all
\* goroutines are parked, so a goroutine started at line 116 has reached
\* <-c.done (line 141), and made its registration, before a callback fires.
Idle == \A g \in DOMAIN gor : gor[g].pc # "spawned"

\* The registrations the refresh at `now` still has to fire: those made
\* before it.
Due == {q \in pending : gor[q.g].lastTick < now}

\* The host: a refresh fires every registration made before it, in the
\* order they were made, all with the refresh's timestamp; the next
\* refresh comes later.
HostFires(p, t) ==
    IF Due # {}
    THEN p \in Due /\ t = now /\ \A q \in Due : p.id <= q.id
    ELSE p \in pending /\ t \in Times /\ t > now

\* renderFrame, lines 120-138: the host fires registration p at timestamp t;
\* changed is what the render step returns if it is called.  When imgCopy
\* is called on a Canvasp without a surface it panics (line 147): nothing
\* is copied, lines 133 and 136 are not reached (lastTimestamp is not
\* stored, no request is made, c.reqID keeps its value), and the panic,
\* which nothing recovers, ends the Go program.
Tick(p, t, changed) ==
    LET g        == p.g
        last     == gor[g].lastTimestamp
        rf       == gor[g].rf
        pass     == GatePasses(t, last, timeStep)
        rendered == pass /\ rf # NilRF
        called   == pass /\ CopiesFrame(rf, changed)
        panics   == called /\ ImgCopyPanics(surf)
        copied   == called /\ ~panics
        newLast  == IF panics THEN last
                    ELSE NextLastTimestamp(pass, copied, t, last)
        pend     == IF ~panics /\ Rearms(pass)
                    THEN RequestAnimationFrame(pending \ {p}, nextID, g)
                    ELSE pending \ {p}
        trace    == HandlerCalls(rendered, called)
        calls    == IF panics
                    THEN SubSeq(trace, 1, Len(trace) - 1) \o <<"panic">>
                    ELSE trace
        this     == [op |-> "tick", ts |-> t, rendered |-> rendered,
                     changed |-> changed, copies |-> IF copied THEN 1 ELSE 0]
    IN  /\ ~exited
        /\ Idle
        /\ HostFires(p, t)
        /\ rendered \/ ~changed
        /\ now' = t
        /\ exited' = panics
        /\ gor' = [gor EXCEPT
                     ![g].lastTimestamp = newLast,
                     ![g].lastTick = t,
                     ![g].prevPass = IF rendered \/ copied THEN t ELSE @,
                     ![g].prev = this,
                     ![g].scen = ScenarioStep(@, t, maxFPS, rendered, changed, copied)]
        /\ pending' = pend
        /\ reqID' = IF panics THEN reqID ELSE nextID
        /\ nextID' = IF panics THEN nextID ELSE nextID + 1
        /\ ev' = [op |-> "tick", g |-> g, ts |-> t, rf |-> rf,
                  step |-> timeStep, maxFPS |-> maxFPS,
                  last |-> last, lastAfter |-> newLast,
                  prevPass |-> gor[g].prevPass, prev |-> gor[g].prev,
                  rendered |-> rendered, changed |-> changed,
                  copyCalled |-> called, panicked |-> panics,
                  copies |-> IF copied THEN 1 ELSE 0,
                  calls |-> calls,
                  buf |-> surf.copybuff, frame |-> surf.image,
                  afterStop |-> \E k \in DOMAIN stops : stops[k].nGor >= g,
                  rearms |-> Cardinality(pend \ pending)]
        /\ UNCHANGED <<surf, timeStep, maxFPS, stops, nCalls>>

\* Stop, lines 91-95: cancels c.reqID (line 92), then sends on c.done
\* (line 93), where the call parks: the close of line 94 and the return
\* are never reached.
Stop ==
    /\ ~exited
    /\ nCalls < MaxCalls
    /\ nCalls' = nCalls + 1
    /\ pending' = CancelAnimationFrame(pending, reqID)
    /\ stops' = Append(stops, [pc |-> "send", handle |-> reqID,
                               pendingIds |-> {p.id : p \in pending},
                               nGor |-> Len(gor)])
    /\ ev' = [op |-> "Stop"]
    /\ UNCHANGED <<surf, timeStep, maxFPS, reqID, gor, nextID, now, exited>>

Next ==
    \/ \E fps \in FPSValues : SetFPS(fps)
    \/ \E fps \in FPSValues, rf \in RenderFuncs : Start(fps, rf)
    \/ \E g \in DOMAIN gor : GoRegister(g)
    \/ \E p \in pending, t \in Times, changed \in BOOLEAN : Tick(p, t, changed)
    \/ Stop

Spec == Init /\ [][Next]_vars

\* The same program in the runs where the owner also sets the surface up
\* anew (Set), at the rates of SurfaceFPS.
SurfaceNext ==
    \/ \E d \in Dims : Set(d[1], d[2])
    \/ \E fps \in SurfaceFPS : SetFPS(fps)
    \/ \E fps \in SurfaceFPS, rf \in RenderFuncs : Start(fps, rf)
    \/ \E g \in DOMAIN gor : GoRegister(g)
    \/ \E p \in pending, t \in Times, changed \in BOOLEAN : Tick(p, t, changed)
    \/ Stop

SurfaceSpec == Init /\ [][SurfaceNext]_vars

\* The Go scheduler runs every runnable goroutine, and the host fires every
\* pending registration at the next refresh.
FairSpec == Spec /\ WF_vars(Next)

\* ================================================================ claims
\* The latest operation was a refresh callback.
IsTick == ev.op = "tick"

\* What an observer sees of the gate: the callback called the render step
\* or called imgCopy (which copies a frame, or panics on a Canvasp without a
\* surface).
GateOpened == ev.rendered \/ ev.copyCalled

\* C1: a callback at timestamp T calls the render step or copies a frame
\* only if T minus the timestamp of the latest callback that did so (0 if
\* none did) is at least the interval in force; when the difference is
\* smaller it does neither.
C1_GateOnlyAfterInterval ==
    IsTick =>
        /\ GateOpened => FloatGeq(ev.ts - ev.prevPass, ev.step)
        /\ ~FloatGeq(ev.ts - ev.prevPass, ev.step) => ~ev.rendered /\ ev.copies = 0

\* A callback that opened the gate after an earlier one had.
C1_Witness == IsTick /\ GateOpened /\ ev.prevPass > 0

\* C2: a callback fired after Stop was called on a presenter that had been
\* started neither calls the render step, nor copies, nor re-arms.
C2_NoEffectAfterStop ==
    IsTick /\ ev.afterStop => ~ev.rendered /\ ev.copies = 0 /\ ev.rearms = 0

\* C3 as stated: Start(60, always true) and callbacks at 0, 8, 17, 33 copy
\* at 17 and at 33, and at no other tick.
C3_CopiesAt17And33 ==
    \A g \in DOMAIN gor :
        gor[g].maxFPS = Scenario.maxFPS /\ gor[g].scen.n = Len(Scenario.times)
            => gor[g].scen.copies = {17, 33}

\* C3 amended: Start(60, always true) and callbacks at 0, 8, 17, 33 copy at
\* 17 and at no other tick (33 - 17 = 16 is less than 1000/60).
C3_CopiesAt17Only ==
    \A g \in DOMAIN gor :
        gor[g].maxFPS = Scenario.maxFPS /\ gor[g].scen.n = Len(Scenario.times)
            => gor[g].scen.copies = {17}

\* The scenario ran to its end: four callbacks at 0, 8, 17, 33 under 60 FPS.
C3_Witness ==
    \E g \in DOMAIN gor :
        gor[g].maxFPS = Scenario.maxFPS /\ gor[g].scen.n = Len(Scenario.times)

\* C4: at most one refresh registration is pending in every state, and a
\* callback invocation registers exactly one successor.
C4_AtMostOnePending ==
    /\ Cardinality(pending) <= 1
    /\ IsTick => ev.rearms = 1

\* C5: after Start and then Stop, the Stop call eventually returns and the
\* goroutine parked on the done channel eventually exits.
C5_StopReturns ==
    (Len(stops) >= 1 /\ stops[1].nGor >= 1)
        ~> (/\ Len(stops) >= 1 /\ stops[1].pc = "returned"
            /\ Len(gor) >= 1 /\ gor[1].pc = "exited")

\* C6: a Start with maxFPS <= 0 is rejected: it starts no goroutine, so it
\* registers no refresh callback and the presenter stays stopped.
C6_RejectsNonPositiveFPS ==
    \A g \in DOMAIN gor : gor[g].maxFPS > 0

\* C7: a callback at T that calls the render step and is told "unchanged"
\* copies nothing and leaves lastTimestamp = T, and the next callback of
\* that chain evaluates its gate against T.
C7_UnchangedStillAdvances ==
    IsTick =>
        /\ ev.rendered /\ ~ev.changed => ev.copies = 0 /\ ev.lastAfter = ev.ts
        /\ ev.prev.op = "tick" /\ ev.prev.rendered /\ ~ev.prev.changed
               => ev.last = ev.prev.ts

\* The callback that follows one whose render step reported "unchanged".
C7_Witness ==
    IsTick /\ ev.prev.op = "tick" /\ ev.prev.rendered /\ ~ev.prev.changed

\* C8: without a render step, a callback copies exactly once when its gate
\* passes and not at all when it does not, and calls no render step.  On a
\* Canvasp made by NewCanvasp(false) and started before any Set, the
\* callback whose gate passes panics in imgCopy and copies nothing.
C8_NilRenderStepCopies ==
    IsTick /\ ev.rf = NilRF =>
        /\ ~ev.rendered
        /\ ev.copies = IF FloatGeq(ev.ts - ev.last, ev.step)
                      THEN 1 ELSE 0

\* C9: every callback's gate uses the interval of the latest SetFPS (or
\* Start) made before it, in whichever state that call was made; and a
\* SetFPS step changes neither the goroutines (their lastTimestamp, what
\* their callbacks did, whether they run), nor the registrations, nor the
\* stored request id, nor the Stop calls.
C9_SetFPSFromNextCallback ==
    /\ [](IsTick =>
            (GateOpened <=> FloatGeq(ev.ts - ev.last, TimeStepFor(ev.maxFPS))))
    /\ [][ev'.op = "SetFPS" =>
            UNCHANGED <<gor, pending, reqID, nextID, now, stops>>]_vars

\* A callback evaluated under a rate that a SetFPS set after its Start, and
\* after an earlier callback of the chain: the gate opens under the new rate
\* where the Start's rate would have kept it shut.
C9_Witness ==
    /\ IsTick
    /\ ev.maxFPS # gor[ev.g].maxFPS
    /\ ev.prev.op = "tick"
    /\ GateOpened
    /\ ~FloatGeq(ev.ts - ev.last, TimeStepFor(gor[ev.g].maxFPS))

\* C10: for maxFPS > 0 the interval is 1000/maxFPS: interval * maxFPS =
\* 1000, and a callback's gate opens exactly when
\* (T - lastTimestamp) * maxFPS >= 1000.
C10_IntervalIs1000OverFPS ==
    /\ maxFPS > 0 => timeStep[2] > 0 /\ timeStep[1] * maxFPS = 1000 * timeStep[2]
    /\ IsTick /\ ev.maxFPS > 0 =>
           (GateOpened <=> (ev.ts - ev.last) * ev.maxFPS >= 1000)

\* A gate that opened on the boundary: (T - lastTimestamp) * maxFPS = 1000.
C10_Witness ==
    IsTick /\ ev.maxFPS > 0 /\ GateOpened /\ (ev.ts - ev.last) * ev.maxFPS = 1000

\* C11: a Stop called with no Start before it, or after an earlier Stop,
\* fails at once with a precondition violation: it is neither parked for
\* ever on the send nor accepted.
C11_StopMisuseFails ==
    \A k \in DOMAIN stops :
        stops[k].nGor = 0 \/ k > 1 => stops[k].pc = "precondViolation"

\* C12: every callback invocation registers exactly one new callback,
\* whether it was skipped by the gate, rendered without a change, or
\* rendered and copied; so, until a Stop is called, a goroutine that has
\* registered its callback always has exactly one registration pending.
\* The callback that panics in imgCopy (no surface) registers none, and the
\* chain ends with no Stop called.
C12_AlwaysRearms ==
    /\ IsTick => ev.rearms = 1
    /\ stops = <<>> =>
           \A g \in DOMAIN gor :
               gor[g].pc = "recv" => Cardinality({p \in pending : p.g = g}) = 1

\* Number of calls that have not returned after the first i events of c.
InProgress(c, i) ==
    Cardinality({j \in 1..i : c[j] \in {"render.call", "copy.call"}})
        - Cardinality({j \in 1..i : c[j] \in {"render.return", "copy.return"}})

\* C14: within a callback the render step has returned when the copy
\* begins, at most one of the render step and the copy is in progress at any
\* point, and none is in progress when the callback returns (callbacks run
\* one at a time, each to completion; one that panics in imgCopy does not
\* return, and the program ends there).
C14_RenderThenCopy ==
    IsTick =>
        /\ \A i \in DOMAIN ev.calls : InProgress(ev.calls, i) \in {0, 1}
        /\ ~ev.panicked => InProgress(ev.calls, Len(ev.calls)) = 0
        /\ \A j \in DOMAIN ev.calls :
               ev.calls[j] = "copy.call" /\ ev.rendered =>
                   \E i \in 1..(j - 1) : ev.calls[i] = "render.return"

\* A callback that called the render step and then copied.
C14_Witness == IsTick /\ ev.rendered /\ ev.copies = 1

\* C15: a SetFPS(v) made when the latest SetFPS (alone or inside Start) was
\* SetFPS(v) changes nothing of the program's state, so every later
\* callback behaves as after one call.
C15_SetFPSIdempotent ==
    [][(/\ ev'.op = "SetFPS"
        /\ Len(gor) > 0 \/ ev.op = "SetFPS"
        /\ maxFPS' = maxFPS)
           => UNCHANGED <<timeStep, reqID, gor, pending, nextID, now, stops, surf,
                          exited>>]_vars

\* A repeated SetFPS(v) made while a callback chain that has already passed
\* its gate is running.
C15_Witness ==
    /\ ev.op = "SetFPS"
    /\ \E g \in DOMAIN gor : gor[g].maxFPS = maxFPS /\ gor[g].lastTimestamp > 0

\* C17: a Stop that runs while a registration is pending hands the id of
\* a pending registration to cancelAnimationFrame.
C17_StopCancelsPending ==
    \A k \in DOMAIN stops :
        stops[k].pendingIds # {} => stops[k].handle \in stops[k].pendingIds

\* C18: the first callback of every Start compares its timestamp T against
\* lastTimestamp = 0: it enters the render/copy branch (calls the render
\* step or imgCopy) exactly when T >= the interval, and when skipped it
\* leaves lastTimestamp at 0.
C18_FirstCallbackFromZero ==
    IsTick /\ ev.prev.op = "none" =>
        /\ ev.last = 0
        /\ GateOpened <=> FloatGeq(ev.ts, ev.step)
        /\ ~GateOpened => ev.lastAfter = 0

\* The first callback of a second Start, at a timestamp after 0.
C18_Witness == IsTick /\ ev.prev.op = "none" /\ ev.g = 2 /\ ev.ts > 0

\* C13: the transfer buffer changes only in a surface setup (never in a
\* callback's copy), and at every copy its length is the shadow frame's
\* byte length, width * height * 4 for the surface's width and height at
\* that time, also after Set was called again with another size.
C13_TransferBufferFitsFrame ==
    /\ [](IsTick /\ ev.copies > 0 =>
            /\ ev.buf = surf.copybuff
            /\ ev.buf.len = ev.frame
            /\ ev.buf.len = Width * Height * 4)
    /\ [][surf'.copybuff # surf.copybuff => ev'.op = "Set"]_vars

\* A copy made after Set gave the surface another size.
C13_Witness ==
    IsTick /\ ev.copies > 0 /\ surf.lastSet # WindowSize /\ surf.allocs > 1

\* C16: Width() and Height() are the width and height of the latest
\* Create or Set, and no step other than a Set changes them.
C16_WidthHeightAsSet ==
    /\ [](Width = surf.lastSet[1] /\ Height = surf.lastSet[2])
    /\ [][ev'.op # "Set" => Width' = Width /\ Height' = Height]_vars

\* A callback ran after Set gave the surface another size.
C16_Witness == IsTick /\ surf.lastSet # WindowSize /\ Width = 1 /\ Height = 3

====
